---- MODULE Spec2Model ----
(***************************************************************************)
(* Model of src/app.py (Phonics syllable tool).                            *)
(*                                                                         *)
(* Strings are sequences of one-character strings.  JSON values are tagged *)
(* records.  Three specifications:                                         *)
(*   Spec      the session: user interactions and Streamlit script runs    *)
(*   SpecFetch fetch_word_info_from_api applied to bounded HTTP responses  *)
(*   SpecRules explain_syllable_rules applied to bounded words             *)
(* Rule texts are abbreviated: "suffix -er" stands for the Chinese         *)
(* explanation of that suffix, "VCC", "CVC", "multi" and "fallback" for    *)
(* the other four texts.                                                   *)
(***************************************************************************)
EXTENDS Integers, Sequences, FiniteSets, TLC

VARIABLES
    text,            \* content of the text input widget (line 216)
    input_box_id,    \* st.session_state["input_box_id"]
    dict_cache,      \* st.session_state["dict_cache"]
    history,         \* st.session_state["history"]
    pc,              \* position of the script run: "idle" (no run), "loop", "tail"
    click,           \* the button whose click started the current run
    words,           \* text.strip().split() of the current run
    idx,             \* index of the next token of words
    total_words,     \* line 244
    total_syllables, \* line 243
    cards,           \* raw tokens of the cards rendered by the current run
    now,             \* wall clock, in seconds
    buttons,         \* the history section (and its buttons) is on the page
    requests,        \* outbound dictionary requests issued, per word
    processed,       \* tokens counted as words since the last clear, per word
    interactions,    \* user interactions so far
    inp,             \* input of the pure-function specifications
    out              \* result of the pure-function specifications

vars == <<text, input_box_id, dict_cache, history, pc, click, words, idx,
          total_words, total_syllables, cards, now, buttons, requests,
          processed, interactions, inp, out>>

session_vars == <<text, input_box_id, dict_cache, history, pc, click, words,
                  idx, total_words, total_syllables, cards, now, buttons,
                  requests, processed, interactions>>

\* ------------------------------------------------------------------ strings

UpperCase == <<"A","B","C","D","E","F","G","H","I","J","K","L","M",
               "N","O","P","Q","R","S","T","U","V","W","X","Y","Z">>
LowerCase == <<"a","b","c","d","e","f","g","h","i","j","k","l","m",
               "n","o","p","q","r","s","t","u","v","w","x","y","z">>

IsUpper(c) == \E i \in 1..26 : UpperCase[i] = c
IsLowerLetter(c) == \E i \in 1..26 : LowerCase[i] = c
IsLetter(c) == IsUpper(c) \/ IsLowerLetter(c)
IsSpace(c) == c \in {" ", "\t", "\n"}

LowerChar(c) ==
    IF IsUpper(c) THEN LowerCase[CHOOSE i \in 1..26 : UpperCase[i] = c] ELSE c

\* str.lower()
Lower(s) == [i \in 1..Len(s) |-> LowerChar(s[i])]

\* str.strip()
RECURSIVE LStrip(_)
LStrip(s) == IF s # <<>> /\ IsSpace(Head(s)) THEN LStrip(Tail(s)) ELSE s

RECURSIVE RStrip(_)
RStrip(s) ==
    IF s # <<>> /\ IsSpace(s[Len(s)]) THEN RStrip(SubSeq(s, 1, Len(s) - 1)) ELSE s

Strip(s) == RStrip(LStrip(s))

\* str.endswith / str.startswith
EndsWith(s, suf) ==
    Len(suf) <= Len(s) /\ SubSeq(s, Len(s) - Len(suf) + 1, Len(s)) = suf

StartsWith(s, pre) == Len(pre) <= Len(s) /\ SubSeq(s, 1, Len(pre)) = pre

\* str.split() with no argument: maximal runs of non-whitespace
RECURSIVE SplitFrom(_, _, _)
SplitFrom(s, cur, acc) ==
    IF s = <<>>
    THEN IF cur = <<>> THEN acc ELSE Append(acc, cur)
    ELSE IF IsSpace(Head(s))
         THEN SplitFrom(Tail(s), <<>>, IF cur = <<>> THEN acc ELSE Append(acc, cur))
         ELSE SplitFrom(Tail(s), Append(cur, Head(s)), acc)

Split(s) == SplitFrom(s, <<>>, <<>>)

\* re.sub(r"[^A-Za-z']", "", w), line 250
RECURSIVE CleanWord(_)
CleanWord(w) ==
    IF w = <<>> THEN <<>>
    ELSE IF IsLetter(Head(w)) \/ Head(w) = "'"
         THEN <<Head(w)>> \o CleanWord(Tail(w))
         ELSE CleanWord(Tail(w))

Min(S) == CHOOSE x \in S : \A y \in S : x <= y

\* all sequences over S of length at most n
SeqsUpTo(S, n) == UNION {[1..k -> S] : k \in 0..n}

\* ------------------------------------------------------------- JSON values

Null == [t |-> "null"]
JBool(b) == [t |-> "bool", b |-> b]
JNum(n) == [t |-> "num", n |-> n]
JStr(s) == [t |-> "str", s |-> s]
JList(l) == [t |-> "list", l |-> l]
JObj(o) == [t |-> "obj", o |-> o]

\* Python truth value of a parsed JSON value
Truthy(v) ==
    CASE v.t = "null" -> FALSE
      [] v.t = "bool" -> v.b
      [] v.t = "num"  -> v.n # 0
      [] v.t = "str"  -> v.s # <<>>
      [] v.t = "list" -> v.l # <<>>
      [] v.t = "obj"  -> DOMAIN v.o # {}

\* dict.get(key): None when the key is missing
Get(obj, key) == IF key \in DOMAIN obj.o THEN obj.o[key] ELSE Null

\* `value or []`
OrEmptyList(v) == IF Truthy(v) THEN v ELSE JList(<<>>)

\* isinstance(v, str) and v.strip()
IsNonBlankStr(v) == v.t = "str" /\ Strip(v.s) # <<>>

\* ------------------------------------------- fetch_word_info_from_api

MaxSynonyms == 5

\* lines 96-102
base_result ==
    [ipa |-> Null, pos |-> Null, definition |-> Null, example |-> Null,
     synonyms |-> <<>>]

Return(info) == [kind |-> "return", info |-> info]
Raise == [kind |-> "raise"]

\* lines 128-132: the first phonetics entry with a non-blank text;
\* p.get raises AttributeError when p is no object
RECURSIVE ScanPhonetics(_, _)
ScanPhonetics(ps, i) ==
    IF i > Len(ps) THEN [k |-> "none"]
    ELSE IF ps[i].t # "obj" THEN [k |-> "raise"]
    ELSE LET ptext == Get(ps[i], "text")
         IN  IF IsNonBlankStr(ptext)
             THEN [k |-> "found", ipa |-> JStr(Strip(ptext.s))]
             ELSE ScanPhonetics(ps, i + 1)

\* lines 124-132: the value of the local `ipa` before normalisation
FindIpa(entry) ==
    LET ipa0 == Get(entry, "phonetic")
    IN  IF Truthy(ipa0) THEN [k |-> "found", ipa |-> ipa0]
        ELSE LET phonetics == OrEmptyList(Get(entry, "phonetics"))
             IN  IF phonetics.t = "list"
                 THEN LET r == ScanPhonetics(phonetics.l, 1)
                      IN  IF r.k = "none" THEN [k |-> "found", ipa |-> ipa0] ELSE r
                 ELSE [k |-> "found", ipa |-> ipa0]

\* NormalizeIpa without the test of line 136: the text is always wrapped
NormalizeIpaAlwaysWrap(ipa) ==
    IF IsNonBlankStr(ipa) THEN JStr(<<"/">> \o Strip(ipa.s) \o <<"/">>) ELSE Null

\* lines 133-138: what is stored in base_result["ipa"]
NormalizeIpa(ipa) ==
    IF IsNonBlankStr(ipa)
    THEN LET s == Strip(ipa.s)
         IN  IF StartsWith(s, <<"/">>) \/ StartsWith(s, <<"[">>)
             THEN JStr(s)
             ELSE JStr(<<"/">> \o s \o <<"/">>)
    ELSE Null

\* a field that is kept, stripped, when it is a non-blank string
StrippedOrNone(v) == IF IsNonBlankStr(v) THEN JStr(Strip(v.s)) ELSE Null

InSeq(x, s) == \E i \in 1..Len(s) : s[i] = x

\* lines 164-169
RECURSIVE UniqSynonyms(_, _, _)
UniqSynonyms(syns, i, uniq) ==
    IF i > Len(syns) THEN uniq
    ELSE IF syns[i].t = "str"
         THEN LET s_clean == Strip(syns[i].s)
              IN  IF s_clean # <<>> /\ ~InSeq(s_clean, uniq)
                  THEN UniqSynonyms(syns, i + 1, Append(uniq, s_clean))
                  ELSE UniqSynonyms(syns, i + 1, uniq)
         ELSE UniqSynonyms(syns, i + 1, uniq)

Truncate(s, n) == SubSeq(s, 1, IF Len(s) < n THEN Len(s) ELSE n)

\* ExtractSynonyms without the slice of line 170
ExtractSynonymsNoLimit(d0) ==
    LET syns == OrEmptyList(Get(d0, "synonyms"))
    IN  IF syns.t = "list" THEN UniqSynonyms(syns.l, 1, <<>>) ELSE <<>>

\* lines 162-170
ExtractSynonyms(d0) ==
    LET syns == OrEmptyList(Get(d0, "synonyms"))
    IN  IF syns.t = "list"
        THEN Truncate(UniqSynonyms(syns.l, 1, <<>>), MaxSynonyms)
        ELSE <<>>

\* lines 148-170, given the record built so far
ExtractDefinition(m, res) ==
    LET defs == OrEmptyList(Get(m, "definitions"))
    IN  IF defs.t = "list" /\ defs.l # <<>>
        THEN LET d0 == defs.l[1]
             IN  IF d0.t # "obj" THEN Raise
                 ELSE Return([res EXCEPT
                         !.definition = StrippedOrNone(Get(d0, "definition")),
                         !.example = StrippedOrNone(Get(d0, "example")),
                         !.synonyms = ExtractSynonyms(d0)])
        ELSE Return(res)

\* lines 141-172, given the record built so far
ExtractMeanings(entry, res) ==
    LET meanings == OrEmptyList(Get(entry, "meanings"))
    IN  IF meanings.t = "list" /\ meanings.l # <<>>
        THEN LET m == meanings.l[1]
             IN  IF m.t # "obj" THEN Raise
                 ELSE ExtractDefinition(
                        m, [res EXCEPT !.pos = StrippedOrNone(Get(m, "partOfSpeech"))])
        ELSE Return(res)

\* lines 118-172: the parsed document js
ParseDocument(js) ==
    IF ~(js.t = "list" /\ js.l # <<>>) THEN Return(base_result)
    ELSE LET entry == js.l[1]
         IN  IF entry.t # "obj" THEN Raise
             ELSE LET f == FindIpa(entry)
                  IN  IF f.k = "raise" THEN Raise
                      ELSE ExtractMeanings(
                             entry, [base_result EXCEPT !.ipa = NormalizeIpa(f.ipa)])

\* HTTP outcomes of urlopen + read + json.loads (lines 104-115)
UrlError == [kind |-> "urlerror"]
Timeout == [kind |-> "timeout"]
HttpStatus(n) == [kind |-> "status", status |-> n]
Malformed == [kind |-> "malformed"]
Document(js) == [kind |-> "json", js |-> js]

\* lines 86-172
fetch_word_info_from_api(resp) ==
    IF resp.kind = "json" THEN ParseDocument(resp.js) ELSE Return(base_result)

\* ------------------------------------------- inputs of SpecFetch

MaxIpaLen == 2
MaxPhonetics == 2
MaxSynLen == 7

IpaChars == {"/", "[", "x", " "}
IpaTexts == SeqsUpTo(IpaChars, MaxIpaLen)

\* a record with the given fields left out when their value is "absent"
Absent == [t |-> "absent"]
Obj3(k1, v1, k2, v2, k3, v3) ==
    LET keys == {k \in {k1, k2, k3} :
                    \/ (k = k1 /\ v1 # Absent)
                    \/ (k = k2 /\ v2 # Absent)
                    \/ (k = k3 /\ v3 # Absent)}
    IN  JObj([k \in keys |-> IF k = k1 THEN v1 ELSE IF k = k2 THEN v2 ELSE v3])

PhoneticVals ==
    {Absent, Null, JNum(0), JNum(7)} \cup {JStr(s) : s \in IpaTexts}

PhoneticsItems ==
    {JNum(1), JObj(<<>>), JObj([text |-> JNum(3)]), JObj([text |-> JStr(<<" ">>)]),
     JObj([text |-> JStr(<<"x", " ">>)]), JObj([text |-> JStr(<<"/", "y", "/">>)])}

PhoneticsVals ==
    {Absent, Null, JNum(1), JStr(<<"x">>)}
        \cup {JList(l) : l \in SeqsUpTo(PhoneticsItems, MaxPhonetics)}

\* the i-th synonym of a source list: a fresh word, the previous word padded
\* with blanks, or a value that is dropped (a blank string at odd positions,
\* a number at even ones)
SynChoices(i) ==
    {JStr(<<LowerCase[i]>>),
     JStr(<<" ", LowerCase[IF i = 1 THEN 1 ELSE i - 1], " ">>),
     IF i % 2 = 1 THEN JStr(<<" ">>) ELSE JNum(1)}

RECURSIVE SynListsOfLen(_)
SynListsOfLen(n) ==
    IF n = 0 THEN {<<>>}
    ELSE {Append(l, c) : l \in SynListsOfLen(n - 1), c \in SynChoices(n)}

SynLists == UNION {SynListsOfLen(n) : n \in 0..MaxSynLen}

SynonymsVals == {Absent, Null, JNum(1), JStr(<<"a">>)} \cup {JList(l) : l \in SynLists}

DefinitionEntry(syn) ==
    Obj3("definition", JStr(<<" ", "d">>), "example", JStr(<<"e", " ">>), "synonyms", syn)

DefinitionsVals ==
    {Absent, Null, JNum(1), JList(<<>>), JList(<<JNum(1)>>), JList(<<JObj(<<>>)>>),
     JList(<<Obj3("definition", JNum(1), "example", JStr(<<" ">>), "synonyms", Absent)>>),
     JList(<<DefinitionEntry(JList(<<JStr(<<"a">>), JStr(<<"a">>)>>)), JNum(1)>>)}

MeaningsShapes ==
    {Absent, Null, JNum(1), JList(<<>>), JList(<<JNum(1)>>), JList(<<JObj(<<>>)>>)}
        \cup {JList(<<Obj3("partOfSpeech", pos, "definitions", defs, "x", Absent)>>) :
                 pos \in {Absent, JNum(1), JStr(<<" ", "n", " ">>)}, defs \in DefinitionsVals}

Entry(phonetic, phonetics, meanings) ==
    Obj3("phonetic", phonetic, "phonetics", phonetics, "meanings", meanings)

IpaEntries == {Entry(p, ps, Absent) : p \in PhoneticVals, ps \in PhoneticsVals}

MeaningEntries ==
    {Entry(p, ps, m) : p \in {Absent, JStr(<<"x">>)},
                       ps \in {Absent, JList(<<JNum(1)>>)},
                       m \in MeaningsShapes}

SynonymEntries ==
    {Entry(JStr(<<"/", "x", "/">>), Absent,
           JList(<<Obj3("partOfSpeech", JStr(<<"n">>),
                        "definitions", JList(<<DefinitionEntry(syn)>>), "x", Absent)>>)) :
        syn \in SynonymsVals}

Entries == IpaEntries \cup MeaningEntries \cup SynonymEntries

Documents ==
    {Null, JNum(1), JBool(TRUE), JStr(<<"x">>), JObj(<<>>), JList(<<>>),
     JList(<<Null>>), JList(<<JNum(1)>>), JList(<<JStr(<<"x">>)>>),
     JList(<<JList(<<>>)>>)}
        \cup {JList(<<e>>) : e \in Entries}
        \cup {JList(<<JObj(<<>>), JNum(1)>>)}

Responses ==
    {UrlError, Timeout, HttpStatus(404), HttpStatus(204), Malformed}
        \cup {Document(js) : js \in Documents}

Pending == [kind |-> "pending"]
NoInput == [kind |-> "none"]

SessionIdle ==
    /\ text = <<>>
    /\ input_box_id = 0
    /\ dict_cache = <<>>
    /\ history = <<>>
    /\ pc = "idle"
    /\ click = "none"
    /\ words = <<>>
    /\ idx = 1
    /\ total_words = 0
    /\ total_syllables = 0
    /\ cards = <<>>
    /\ now = 0
    /\ buttons = FALSE
    /\ requests = <<>>
    /\ processed = <<>>
    /\ interactions = 0

InitFetch ==
    /\ SessionIdle
    /\ inp \in Responses
    /\ out = Pending

\* one call of fetch_word_info_from_api on the response the network gives
Fetch ==
    /\ inp.kind # "rules"
    /\ out = Pending
    /\ out' = fetch_word_info_from_api(inp)
    /\ UNCHANGED <<inp, session_vars>>

NextFetch == Fetch

SpecFetch == InitFetch /\ [][NextFetch]_vars

\* ------------------------------------------- explain_syllable_rules

\* lines 48-58, in the dict's insertion order
suffix_rules ==
    << [suf |-> <<"t","i","o","n">>, text |-> "suffix -tion"],
       [suf |-> <<"s","i","o","n">>, text |-> "suffix -sion"],
       [suf |-> <<"i","n","g">>,     text |-> "suffix -ing"],
       [suf |-> <<"e","r">>,         text |-> "suffix -er"],
       [suf |-> <<"o","r">>,         text |-> "suffix -or"],
       [suf |-> <<"m","e","n","t">>, text |-> "suffix -ment"],
       [suf |-> <<"n","e","s","s">>, text |-> "suffix -ness"],
       [suf |-> <<"a","b","l","e">>, text |-> "suffix -able"],
       [suf |-> <<"i","b","l","e">>, text |-> "suffix -ible"] >>

VCCText == "VCC"
CVCText == "CVC"
MultiText == "multi"
FallbackText == "fallback"

\* the character classes of the two regular expressions
IsVowel(c) == c \in {"a", "e", "i", "o", "u"}
IsConsonant(c) == IsLowerLetter(c) /\ ~IsVowel(c)

\* lines 60-63: the loop over the table, from entry i on
RECURSIVE SuffixRule(_, _)
SuffixRule(base, i) ==
    IF i > Len(suffix_rules) THEN <<>>
    ELSE IF EndsWith(base, suffix_rules[i].suf) THEN <<suffix_rules[i].text>>
    ELSE SuffixRule(base, i + 1)

\* re.search(r"[aeiou][bcdfghjklmnpqrstvwxyz]{2}", base), line 66
HasVCC(base) ==
    \E i \in 1..(Len(base) - 2) :
        IsVowel(base[i]) /\ IsConsonant(base[i + 1]) /\ IsConsonant(base[i + 2])

\* re.search(r"[bcdfghjklmnpqrstvwxyz][aeiou][bcdfghjklmnpqrstvwxyz]", base), line 70
HasCVC(base) ==
    \E i \in 1..(Len(base) - 2) :
        IsConsonant(base[i]) /\ IsVowel(base[i + 1]) /\ IsConsonant(base[i + 2])

\* RuleBase without the lowercasing of line 45
RuleBaseNoLower(word) == word

\* line 45
RuleBase(word) == Lower(word)

\* PatternRules without the fallback of lines 78-79
PatternRulesNoFallback(base, syllables, rules) ==
    LET r2 == IF HasVCC(base) THEN Append(rules, VCCText) ELSE rules
        r3 == IF HasCVC(base) THEN Append(r2, CVCText) ELSE r2
    IN  IF Len(syllables) >= 3 THEN Append(r3, MultiText) ELSE r3

\* lines 65-81, given the rules the suffix loop left
PatternRules(base, syllables, rules) ==
    LET r2 == IF HasVCC(base) THEN Append(rules, VCCText) ELSE rules
        r3 == IF HasCVC(base) THEN Append(r2, CVCText) ELSE r2
        r4 == IF Len(syllables) >= 3 THEN Append(r3, MultiText) ELSE r3
    IN  IF r4 = <<>> THEN <<FallbackText>> ELSE r4

\* lines 39-81
explain_syllable_rules(word, syllables) ==
    PatternRules(RuleBase(word), syllables, SuffixRule(RuleBase(word), 1))

\* ------------------------------------------- inputs of SpecRules

MaxStemLen == 2
MaxSyllables == 4

StemChars == {"a", "B", "t", "'"}
Endings ==
    {suffix_rules[i].suf : i \in 1..Len(suffix_rules)}
        \cup {<<>>, <<"E", "R">>, <<"r">>, <<"i", "o", "n">>, <<"o", "r", "e">>,
              <<"I", "n", "G">>}

RuleWords == {stem \o e : stem \in SeqsUpTo(StemChars, MaxStemLen), e \in Endings}
SyllableLists == {[i \in 1..n |-> <<"s">>] : n \in 0..MaxSyllables}

InitRules ==
    /\ SessionIdle
    /\ inp \in {[kind |-> "rules", word |-> w, syllables |-> sy] :
                    w \in RuleWords, sy \in SyllableLists}
    /\ out = Pending

\* one call of explain_syllable_rules
Explain ==
    /\ inp.kind = "rules"
    /\ out = Pending
    /\ out' = [kind |-> "rules", rules |-> explain_syllable_rules(inp.word, inp.syllables)]
    /\ UNCHANGED <<inp, session_vars>>

NextRules == Explain

SpecRules == InitRules /\ [][NextRules]_vars

\* ------------------------------------------- the session (script runs)

MaxInteractions == 2
MaxTime == 1

\* the texts a user submits: nothing, blanks, one or two words in either
\* case, tokens without a letter, a word with a digit, padding blanks
Texts ==
    { <<>>,
      <<" ">>,
      <<"a">>,
      <<" ", "A", " ">>,
      <<"A", " ", "a">>,
      <<"A", "b">>,
      <<"A", "B">>,
      <<"a", "'">>,
      <<"'">>,
      <<"1", "'">>,
      <<"1", ".">>,
      <<"a", "1", " ", "1">> }

\* what the dictionary API may answer to a request of the session
SessionResponses ==
    {Timeout, HttpStatus(404), Malformed,
     Document(JList(<<JNum(1)>>)),
     Document(JList(<<Entry(JStr(<<"x">>), Absent, Absent)>>))}

\* dict[key] = value
Put(f, k, v) == [x \in DOMAIN f \cup {k} |-> IF x = k THEN v ELSE f[x]]
Count(f, k) == IF k \in DOMAIN f THEN f[k] ELSE 0

\* the pieces of base cut after the positions of cuts
RECURSIVE CutAt(_, _, _)
CutAt(base, from, cuts) ==
    IF cuts = {} THEN <<SubSeq(base, from, Len(base))>>
    ELSE LET c == Min(cuts)
         IN  <<SubSeq(base, from, c)>> \o CutAt(base, c + 1, cuts \ {c})

\* dic.inserted(base).split("-"), lines 258-259: pyphen puts hyphens between
\* characters of base; which ones is the library's choice
Inserted(base) == {CutAt(base, 1, cuts) : cuts \in SUBSET (1..(Len(base) - 1))}

\* "·".join(syllables), line 262, with "." for the middle dot
RECURSIVE Pretty(_)
Pretty(syllables) ==
    IF Len(syllables) = 1 THEN syllables[1]
    ELSE syllables[1] \o <<".">> \o Pretty(Tail(syllables))

\* get_word_info, lines 175-194: the result, the cache it leaves, and whether
\* a request went out (resp is what the API answers to it)
get_word_info(cache, word, resp) ==
    LET key == Lower(word)
    IN  IF key \in DOMAIN cache
        THEN [kind |-> "return", info |-> cache[key], cache |-> cache,
              requested |-> FALSE]
        ELSE LET r == fetch_word_info_from_api(resp)
             IN  IF r.kind = "raise"
                 THEN [kind |-> "raise", cache |-> cache, requested |-> TRUE]
                 ELSE [kind |-> "return", info |-> r.info,
                       cache |-> Put(cache, key, r.info), requested |-> TRUE]

\* the upsert of lines 359-376 that always takes the branch of lines 368-376
UpsertNoIncrement(hist, base, w, syllables, ipa_text, now_str) ==
    Put(hist, base,
        [time |-> now_str, count |-> 1, raw |-> w, base |-> base,
         pretty |-> Pretty(syllables), cnt |-> Len(syllables),
         ipa |-> IF ipa_text = Null THEN <<>> ELSE ipa_text.s])

\* lines 355-376
Upsert(hist, base, w, syllables, ipa_text, now_str) ==
    LET ipa_for_history == IF ipa_text = Null THEN <<>> ELSE ipa_text.s
    IN  IF base \in DOMAIN hist
        THEN [hist EXCEPT ![base] =
                [@ EXCEPT !.time = now_str, !.count = @ + 1, !.raw = w,
                          !.pretty = Pretty(syllables), !.cnt = Len(syllables),
                          !.ipa = ipa_for_history]]
        ELSE Put(hist, base,
                 [time |-> now_str, count |-> 1, raw |-> w, base |-> base,
                  pretty |-> Pretty(syllables), cnt |-> Len(syllables),
                  ipa |-> ipa_for_history])

\* line 250 with a pattern that keeps the digits too
RECURSIVE CleanWordKeepDigits(_)
CleanWordKeepDigits(w) ==
    IF w = <<>> THEN <<>>
    ELSE IF IsLetter(Head(w)) \/ Head(w) = "'" \/ Head(w) \in {"0", "1", "2"}
         THEN <<Head(w)>> \o CleanWordKeepDigits(Tail(w))
         ELSE CleanWordKeepDigits(Tail(w))

\* lines 250-252: the token as the loop keeps it
clean_word(w) == CleanWord(w)

Init ==
    /\ SessionIdle
    /\ inp = NoInput
    /\ out = NoInput

\* lines 241-244 of a run over the text t that the interaction c started
StartRun(t, c) ==
    /\ click' = c
    /\ total_words' = 0
    /\ total_syllables' = 0
    /\ cards' = <<>>
    /\ idx' = 1
    /\ words' = Split(Strip(t))
    /\ pc' = IF Strip(t) # <<>> THEN "loop" ELSE "tail"

\* the user submits a new text (line 216)
EnterText ==
    /\ pc = "idle"
    /\ interactions < MaxInteractions
    /\ \E t \in Texts :
          /\ t # text
          /\ text' = t
          /\ StartRun(t, "text")
    /\ interactions' = interactions + 1
    /\ UNCHANGED <<input_box_id, dict_cache, history, now, buttons, requests,
                   processed, inp, out>>

\* lines 218-220: the click run stops at line 220 and the rerun shows a new,
\* empty input widget
ClickClearInput ==
    /\ pc = "idle"
    /\ interactions < MaxInteractions
    /\ input_box_id' = input_box_id + 1
    /\ text' = <<>>
    /\ StartRun(<<>>, "clear_input")
    /\ interactions' = interactions + 1
    /\ UNCHANGED <<dict_cache, history, now, buttons, requests, processed, inp, out>>

\* a click on the clear-history button (line 460) starts a run
ClickClearHistory ==
    /\ pc = "idle"
    /\ interactions < MaxInteractions
    /\ buttons
    /\ StartRun(text, "clear_history")
    /\ interactions' = interactions + 1
    /\ UNCHANGED <<text, input_box_id, dict_cache, history, now, buttons, requests,
                   processed, inp, out>>

\* a click on a download button (lines 446-458) starts a run
ClickDownload ==
    /\ pc = "idle"
    /\ interactions < MaxInteractions
    /\ buttons
    /\ StartRun(text, "download")
    /\ interactions' = interactions + 1
    /\ UNCHANGED <<text, input_box_id, dict_cache, history, now, buttons, requests,
                   processed, inp, out>>

AfterToken == IF idx + 1 > Len(words) THEN "tail" ELSE "loop"

\* lines 250-252: a token that cleans to the empty string
SkipToken ==
    /\ pc = "loop"
    /\ clean_word(words[idx]) = <<>>
    /\ idx' = idx + 1
    /\ pc' = AfterToken
    /\ UNCHANGED <<text, input_box_id, dict_cache, history, click, words,
                   total_words, total_syllables, cards, now, buttons, requests,
                   processed, interactions, inp, out>>

\* lines 254-376: one pass of the loop body
ProcessToken ==
    /\ pc = "loop"
    /\ clean_word(words[idx]) # <<>>
    /\ LET w == words[idx]
           base == Lower(clean_word(w))
       IN  \E syllables \in Inserted(base), resp \in SessionResponses,
              now_str \in {now, IF now < MaxTime THEN now + 1 ELSE now} :
             LET g == get_word_info(dict_cache, base, resp)
             IN  /\ g.kind = "return"
                 /\ total_words' = total_words + 1
                 /\ total_syllables' = total_syllables + Len(syllables)
                 /\ dict_cache' = g.cache
                 /\ requests' = IF g.requested
                                THEN Put(requests, Lower(base), Count(requests, Lower(base)) + 1)
                                ELSE requests
                 /\ processed' = Put(processed, base, Count(processed, base) + 1)
                 /\ cards' = Append(cards,
                        [token |-> w, pretty |-> Pretty(syllables),
                         cnt |-> Len(syllables), info |-> g.info,
                         rules |-> explain_syllable_rules(base, syllables)])
                 /\ now' = now_str
                 /\ history' = Upsert(history, base, w, syllables, g.info.ipa, now_str)
    /\ idx' = idx + 1
    /\ pc' = AfterToken
    /\ UNCHANGED <<text, input_box_id, click, words, buttons, interactions, inp, out>>

\* the end of a script run: its locals and the click that started it are gone
EndRun ==
    /\ pc' = "idle"
    /\ click' = "none"
    /\ words' = <<>>
    /\ idx' = 1
    /\ total_words' = 0
    /\ total_syllables' = 0
    /\ cards' = <<>>

\* lines 254-265 when get_word_info raises: the run ends with the exception
\* shown on the page, below the widgets of lines 216-218
ProcessTokenRaises ==
    /\ pc = "loop"
    /\ clean_word(words[idx]) # <<>>
    /\ LET base == Lower(clean_word(words[idx]))
       IN  \E resp \in SessionResponses :
             LET g == get_word_info(dict_cache, base, resp)
             IN  /\ g.kind = "raise"
                 /\ dict_cache' = g.cache
                 /\ requests' = Put(requests, Lower(base), Count(requests, Lower(base)) + 1)
                 /\ processed' = Put(processed, base, Count(processed, base) + 1)
    /\ EndRun
    /\ buttons' = FALSE
    /\ UNCHANGED <<text, input_box_id, history, now, interactions, inp, out>>

\* lines 395-458: the history section, no clear-history click pending
RenderHistory ==
    /\ pc = "tail"
    /\ ~(click = "clear_history" /\ history # <<>>)
    /\ buttons' = (history # <<>>)
    /\ EndRun
    /\ UNCHANGED <<text, input_box_id, dict_cache, history, now, requests, processed,
                   interactions, inp, out>>

\* lines 459-462: the button reports its click, the ledger is reset and the
\* script is run again
ClearHistory ==
    /\ pc = "tail"
    /\ click = "clear_history"
    /\ history # <<>>
    /\ history' = <<>>
    /\ processed' = <<>>
    /\ StartRun(text, "rerun_clear_history")
    /\ UNCHANGED <<text, input_box_id, dict_cache, now, buttons, requests,
                   interactions, inp, out>>

Next ==
    \/ EnterText
    \/ ClickClearInput
    \/ ClickClearHistory
    \/ ClickDownload
    \/ SkipToken
    \/ ProcessToken
    \/ ProcessTokenRaises
    \/ RenderHistory
    \/ ClearHistory

Spec == Init /\ [][Next]_vars

\* =================================================================== claims

\* ---- the resolver (SpecFetch)

Fetched == out.kind \in {"return", "raise"}

\* the entry of interest, when the response is a non-empty array of an object
HasEntry(resp) ==
    /\ resp.kind = "json"
    /\ resp.js.t = "list"
    /\ resp.js.l # <<>>
    /\ resp.js.l[1].t = "obj"

EntryOf(resp) == resp.js.l[1]

\* C1: the resolver never lets an exception reach its caller, and every failed
\* lookup (no response, a status other than 200, a malformed body, a document
\* that is no non-empty array of an object) returns the record with every
\* field empty.
C1_NoExceptionReachesCaller ==
    Fetched =>
        /\ out.kind = "return"
        /\ ~HasEntry(inp) => out.info = base_result

\* the synonyms list of the first definition of the first meaning group
HasSynonymsList(resp) ==
    /\ HasEntry(resp)
    /\ Get(EntryOf(resp), "meanings").t = "list"
    /\ Get(EntryOf(resp), "meanings").l # <<>>
    /\ Get(EntryOf(resp), "meanings").l[1].t = "obj"
    /\ Get(Get(EntryOf(resp), "meanings").l[1], "definitions").t = "list"
    /\ Get(Get(EntryOf(resp), "meanings").l[1], "definitions").l # <<>>
    /\ Get(Get(EntryOf(resp), "meanings").l[1], "definitions").l[1].t = "obj"
    /\ Get(Get(Get(EntryOf(resp), "meanings").l[1], "definitions").l[1], "synonyms").t = "list"

SourceSynonyms(resp) ==
    Get(Get(Get(EntryOf(resp), "meanings").l[1], "definitions").l[1], "synonyms").l

\* the source strings stripped; a value that is no string counts as blank
StrippedSource(src) ==
    [i \in 1..Len(src) |-> IF src[i].t = "str" THEN Strip(src[i].s) ELSE <<>>]

\* the positions where a non-empty stripped string occurs for the first time
FirstOccurrences(src) ==
    {i \in 1..Len(src) :
        /\ StrippedSource(src)[i] # <<>>
        /\ \A j \in 1..(i - 1) : StrippedSource(src)[j] # StrippedSource(src)[i]}

\* the k-th smallest element of a set of numbers
Kth(S, k) == CHOOSE i \in S : Cardinality({j \in S : j <= i}) = k

\* C8: the synonyms field is the list of distinct non-empty stripped strings of
\* the source list in order of first occurrence, cut to its first 5 entries:
\* no duplicate, source order, at most 5 entries.
C8_SynonymsDedupOrderedTruncated ==
    (out.kind = "return" /\ HasSynonymsList(inp)) =>
        LET src == SourceSynonyms(inp)
            occ == FirstOccurrences(src)
            syn == out.info.synonyms
        IN  /\ Len(syn) = IF Cardinality(occ) < 5 THEN Cardinality(occ) ELSE 5
            /\ Len(syn) <= 5
            /\ \A k \in 1..Len(syn) : syn[k] = StrippedSource(src)[Kth(occ, k)]
            /\ \A k1, k2 \in 1..Len(syn) : k1 # k2 => syn[k1] # syn[k2]

\* a source with more than 5 distinct strings and a padded duplicate, cut to 5
C8_Witness ==
    /\ out.kind = "return"
    /\ HasSynonymsList(inp)
    /\ Cardinality(FirstOccurrences(SourceSynonyms(inp))) > 5
    /\ Cardinality(FirstOccurrences(SourceSynonyms(inp))) <
         Cardinality({i \in 1..Len(SourceSynonyms(inp)) :
                         StrippedSource(SourceSynonyms(inp))[i] # <<>>})
    /\ Len(out.info.synonyms) = 5

\* the IPA text the entry offers: the direct phonetic field when it is there
\* (and not empty), else the first non-blank text of the phonetics list
PhoneticsTexts(entry) ==
    LET ps == Get(entry, "phonetics")
    IN  IF ps.t # "list" THEN {}
        ELSE {i \in 1..Len(ps.l) :
                ps.l[i].t = "obj" /\ IsNonBlankStr(Get(ps.l[i], "text"))}

OfferedIpa(entry) ==
    IF Truthy(Get(entry, "phonetic")) THEN Get(entry, "phonetic")
    ELSE IF PhoneticsTexts(entry) = {} THEN Null
    ELSE Get(Get(entry, "phonetics").l[Min(PhoneticsTexts(entry))], "text")

OpensDelimited(s) == s # <<>> /\ s[1] \in {"/", "["}
DelimitedAtBothEnds(s) ==
    Len(s) >= 2 /\ s[1] \in {"/", "["} /\ s[Len(s)] \in {"/", "]"}

\* C9 (as amended): the resolver takes the direct phonetic field and, only if
\* that is absent or empty, the first non-blank text of the phonetics list; a
\* found text that does not start with a slash or an opening bracket is stored
\* stripped and wrapped as /text/, one that does is stored stripped and
\* otherwise unchanged, so every stored IPA starts with a slash or a bracket.
C9_IpaTakenAndWrappedByLeadingDelimiter ==
    (out.kind = "return" /\ HasEntry(inp)) =>
        LET offered == OfferedIpa(EntryOf(inp))
            ipa == out.info.ipa
        IN  /\ IF IsNonBlankStr(offered)
               THEN /\ ipa.t = "str"
                    /\ ipa.s = IF OpensDelimited(Strip(offered.s))
                               THEN Strip(offered.s)
                               ELSE <<"/">> \o Strip(offered.s) \o <<"/">>
               ELSE ipa = Null
            /\ ipa # Null => OpensDelimited(ipa.s)

\* the phonetic field is empty and the text "x " of the phonetics list is
\* stored as /x/
C9_Witness ==
    /\ out.kind = "return"
    /\ HasEntry(inp)
    /\ Get(EntryOf(inp), "phonetic") = JStr(<<>>)
    /\ PhoneticsTexts(EntryOf(inp)) # {}
    /\ out.info.ipa = JStr(<<"/", "x", "/">>)

\* C9 (as stated): every stored IPA is delimited at both ends.
C9_StoredIpaDelimitedAtBothEnds ==
    (out.kind = "return" /\ out.info.ipa # Null) => DelimitedAtBothEnds(out.info.ipa.s)

\* ---- the rule explainer (SpecRules)

SuffixTexts == {suffix_rules[i].text : i \in 1..Len(suffix_rules)}

\* the table entries the lowercase word ends with
MatchingSuffixes(word) ==
    {i \in 1..Len(suffix_rules) : EndsWith(Lower(word), suffix_rules[i].suf)}

\* C6: the result is never empty, and the fallback note is in it exactly when
\* no suffix rule, no VCC pattern, no CVC pattern and no multi-syllable rule
\* fired; it is then the only element.
C6_NeverEmptyFallbackIffNothingFired ==
    out.kind = "rules" =>
        LET rules == out.rules
            nothingFired ==
                /\ MatchingSuffixes(inp.word) = {}
                /\ ~HasVCC(Lower(inp.word))
                /\ ~HasCVC(Lower(inp.word))
                /\ Len(inp.syllables) < 3
        IN  /\ Len(rules) >= 1
            /\ InSeq(FallbackText, rules) <=> nothingFired
            /\ InSeq(FallbackText, rules) => rules = <<FallbackText>>

\* a word on which no rule fires gets the fallback note alone
C6_Witness ==
    /\ out.kind = "rules"
    /\ inp.word # <<>>
    /\ Len(inp.syllables) = 2
    /\ out.rules = <<FallbackText>>

\* C7: the result holds at most one suffix explanation, the one of the first
\* table entry the lowercase word ends with, and it is the first element.
C7_SuffixPriorityOrdered ==
    out.kind = "rules" =>
        LET rules == out.rules
            at == {k \in 1..Len(rules) : rules[k] \in SuffixTexts}
        IN  /\ Cardinality(at) <= 1
            /\ IF MatchingSuffixes(inp.word) = {}
               THEN at = {}
               ELSE /\ at = {1}
                    /\ rules[1] = suffix_rules[Min(MatchingSuffixes(inp.word))].text

\* a word written in capitals that ends with -er and has a CVC pattern too
C7_Witness ==
    /\ out.kind = "rules"
    /\ EndsWith(inp.word, <<"E", "R">>)
    /\ Len(out.rules) >= 2
    /\ out.rules[1] = "suffix -er"

\* ---- the session (Spec)

\* C2: at most one outbound dictionary request is made per distinct lowercase
\* word in a session; the first call's record is cached, also when the lookup
\* failed, and the cache entry is never changed or evicted.
C2_AtMostOneRequestPerWord == \A w \in DOMAIN requests : requests[w] <= 1

\* C3: with no clear-history action in between, the ledger holds exactly one
\* record per canonical word looked up, keyed by its lowercase form, and the
\* record's count is the number of processed tokens that normalize to it.
C3_LedgerCountsProcessedTokens ==
    /\ DOMAIN history = DOMAIN processed
    /\ \A w \in DOMAIN history :
          /\ w = Lower(w)
          /\ history[w].base = w
          /\ history[w].count = processed[w]

NoLetter(w) == \A i \in 1..Len(w) : ~IsLetter(w[i])
NoLetterNoApostrophe(w) == \A i \in 1..Len(w) : ~IsLetter(w[i]) /\ w[i] # "'"

TokenLeavesNoTrace ==
    /\ total_words' = total_words
    /\ total_syllables' = total_syllables
    /\ cards' = cards
    /\ requests' = requests
    /\ dict_cache' = dict_cache
    /\ history' = history

\* C4 (as stated): a token of non-letter characters only (digits, punctuation,
\* apostrophes) adds nothing to total_words and total_syllables, renders no
\* card, issues no lookup and leaves the ledger unchanged.
C4_NonLetterTokenLeavesNoTrace ==
    [][(pc = "loop" /\ NoLetter(words[idx])) => TokenLeavesNoTrace]_vars

\* C4 (as amended): a token without a letter and without an apostrophe adds
\* nothing to total_words and total_syllables, renders no card, issues no
\* lookup and leaves the ledger unchanged.
C4_TokenWithoutLetterOrApostropheLeavesNoTrace ==
    [][(pc = "loop" /\ NoLetterNoApostrophe(words[idx])) => TokenLeavesNoTrace]_vars

\* the text "a1 1" is through: the second token was skipped, one card, one word
C4_Witness ==
    /\ pc = "tail"
    /\ words = << <<"a", "1">>, <<"1">> >>
    /\ idx = 3
    /\ total_words = 1
    /\ Len(cards) = 1
    /\ DOMAIN history = { <<"a">> }

\* C5: an upsert of a word in the ledger adds exactly 1 to its count and
\* overwrites timestamp, raw token, syllable breakdown, syllable count and IPA
\* with the values of this lookup, in one step; an upsert of an absent word
\* creates a record with count 1; no other record changes; and outside the
\* clear-history action no record is dropped and no count decreases.
C5_UpsertIncrementsAndOverwrites ==
    [][/\ (pc = "loop" /\ history' # history) =>
            LET w == words[idx]
                base == Lower(clean_word(w))
                card == cards'[Len(cards')]
                rec == history'[base]
            IN  /\ DOMAIN history' = DOMAIN history \cup {base}
                /\ \A k \in DOMAIN history : k # base => history'[k] = history[k]
                /\ rec.count = IF base \in DOMAIN history THEN history[base].count + 1 ELSE 1
                /\ rec.base = base
                /\ rec.time = now'
                /\ rec.raw = w
                /\ rec.pretty = card.pretty
                /\ rec.cnt = card.cnt
                /\ rec.ipa = IF card.info.ipa = Null THEN <<>> ELSE card.info.ipa.s
       /\ (pc = "loop" /\ Len(cards') > Len(cards)) => history' # history
       /\ ~(pc = "tail" /\ click = "clear_history") =>
            \A k \in DOMAIN history :
                k \in DOMAIN history' /\ history'[k].count >= history[k].count
      ]_vars

\* "Ab" was looked up and then "AB": one record, count 2, the raw token, the
\* breakdown and the timestamp of the second lookup
C5_Witness ==
    /\ <<"a", "b">> \in DOMAIN history
    /\ history[<<"a", "b">>].count = 2
    /\ history[<<"a", "b">>].raw = <<"A", "B">>
    /\ history[<<"a", "b">>].pretty = <<"a", ".", "b">>
    /\ history[<<"a", "b">>].time = 1

\* C10: once the clear-history action has been handled (the reset and the
\* script rerun it triggers), the ledger holds no record, whatever text is in
\* the input box.
C10_LedgerEmptyAfterClearHistory ==
    (click = "rerun_clear_history" /\ pc = "tail") => history = <<>>

====
